---- MODULE Spec2Model ----
(***************************************************************************)
(* PDF-To-Quiz (src/src/App.jsx): the text canonicalizer, the question     *)
(* parser, the answer-key importer/exporter, the scoring functions and the *)
(* React component's state with its autosave effects.                      *)
(*                                                                         *)
(* A JavaScript string is a sequence of one-character strings, so that the *)
(* regular expressions of the source are modelled character by character.  *)
(***************************************************************************)
EXTENDS Naturals, Sequences, FiniteSets

(***************************************************************************)
(* Characters and character classes                                        *)
(***************************************************************************)

\* end-of-input marker returned when an index is outside the string
EOS == ""

At(s, i) == IF i >= 1 /\ i <= Len(s) THEN s[i] ELSE EOS

\* \s of a JavaScript regular expression (the characters the model uses)
IsSpace(c) == c \in {" ", "\n", "\t", "\r"}

\* \d
IsDigit(c) == c \in {"0", "1", "2", "3", "4", "5", "6", "7", "8", "9"}

\* \S: a character that is there and is not white space
IsNonSpace(c) == c # EOS /\ ~IsSpace(c)

\* String.prototype.toUpperCase, one character
UpperChar(c) ==
    CASE c = "a" -> "A" [] c = "b" -> "B" [] c = "c" -> "C" [] c = "d" -> "D"
      [] c = "e" -> "E" [] c = "g" -> "G" [] c = "h" -> "H" [] c = "n" -> "N"
      [] c = "p" -> "P" [] c = "r" -> "R" [] c = "u" -> "U" [] c = "x" -> "X"
      [] c = "z" -> "Z" [] c = "â" -> "Â" [] c = "ầ" -> "Ầ" [] c = "ư" -> "Ư"
      [] c = "ơ" -> "Ơ"
      [] OTHER -> c

ToUpper(s) == [i \in 1..Len(s) |-> UpperChar(s[i])]

\* one character of a pattern under the i flag
EqCI(c, d) == c # EOS /\ UpperChar(c) = UpperChar(d)

RECURSIVE SkipSpace(_, _)
\* the index after a greedy \s* that starts at i
SkipSpace(s, i) == IF IsSpace(At(s, i)) THEN SkipSpace(s, i + 1) ELSE i

RECURSIVE SkipDigits(_, _)
\* the index after a greedy \d* that starts at i
SkipDigits(s, i) == IF IsDigit(At(s, i)) THEN SkipDigits(s, i + 1) ELSE i

RECURSIVE SkipIn(_, _, _)
\* the index after a greedy [set]* that starts at i
SkipIn(set, s, i) == IF At(s, i) \in set THEN SkipIn(set, s, i + 1) ELSE i

\* s.substring(i-1, j-1): the characters i .. j-1
Sub(s, i, j) == IF j <= i THEN << >> ELSE SubSeq(s, i, j - 1)

\* whether the literal lit (matched case-insensitively) stands at index i
LitAtCI(s, i, lit) == \A k \in 1..Len(lit) : EqCI(At(s, i + k - 1), lit[k])

\* String.prototype.trim
TrimStart(s) == Sub(s, SkipSpace(s, 1), Len(s) + 1)

RECURSIVE TrimEnd(_)
TrimEnd(s) ==
    IF Len(s) > 0 /\ IsSpace(s[Len(s)]) THEN TrimEnd(Sub(s, 1, Len(s))) ELSE s

Trim(s) == TrimEnd(TrimStart(s))

(***************************************************************************)
(* canonicalizeQuizText: the passes, each a global replace.  MatchX(s, i)  *)
(* is the index after the match of pattern X that starts at index i, or 0  *)
(* when the pattern does not match there.                                  *)
(***************************************************************************)

\* /\[\s*<br>\s*\]/gi
MatchBr(s, i) ==
    IF At(s, i) # "[" THEN 0
    ELSE LET j == SkipSpace(s, i + 1)
             k == SkipSpace(s, j + 4)
         IN  IF LitAtCI(s, j, <<"<", "b", "r", ">">>) /\ At(s, k) = "]"
             THEN k + 1 ELSE 0

\* /C\s*[\.\,\:\-]\s*âu/gi
MatchSplitCau(s, i) ==
    IF ~EqCI(At(s, i), "C") THEN 0
    ELSE LET j == SkipSpace(s, i + 1)
             k == SkipSpace(s, j + 1)
         IN  IF At(s, j) \in {".", ",", ":", "-"} /\ LitAtCI(s, k, <<"â", "u">>)
             THEN k + 2 ELSE 0

\* /[ \t]+/g
MatchBlanks(s, i) ==
    IF At(s, i) \in {" ", "\t"} THEN SkipIn({" ", "\t"}, s, i) ELSE 0

\* /\n{3,}/g  (min = 3)  and  /\n{2,}/g  (min = 2)
MatchNewlines(min, s, i) ==
    LET e == SkipIn({"\n"}, s, i)
    IN  IF e - i >= min THEN e ELSE 0

\* where the word "Câu" of /\s*(Câu)\s*(\d+)\s*[:\.\-]?\s*/gi starts
CauWordAt(s, i) == SkipSpace(s, i)

\* where its number starts
CauDigitsAt(s, i) == SkipSpace(s, CauWordAt(s, i) + 3)

\* /\s*(Câu)\s*(\d+)\s*[:\.\-]?\s*/gi
MatchCau(s, i) ==
    LET w == CauWordAt(s, i)
        d == CauDigitsAt(s, i)
        e == SkipDigits(s, d)
        p == SkipSpace(s, e)
    IN  IF LitAtCI(s, w, <<"C", "â", "u">>) /\ e > d
        THEN IF At(s, p) \in {":", ".", "-"} THEN SkipSpace(s, p + 1) ELSE p
        ELSE 0

\* the replacement `\nCâu ${p2}: `
ReplCau(s, i) ==
    LET d == CauDigitsAt(s, i)
    IN  <<"\n", "C", "â", "u", " ">> \o Sub(s, d, SkipDigits(s, d)) \o <<":", " ">>

\* (^|[\n ]+)([a-dA-D]) : the index of the option letter of a marker that
\* starts at i, or 0
OptLetterAt(s, i) ==
    LET j == SkipIn({"\n", " "}, s, i)
        isLetter(k) == At(s, k) \in {"a", "b", "c", "d", "A", "B", "C", "D"}
    IN  IF i = 1 /\ isLetter(1) THEN 1
        ELSE IF j > i /\ isLetter(j) THEN j
        ELSE 0

\* /(^|[\n ]+)([a-dA-D])\s*[\)\.\:\-]\s*(?=\S)/g
MatchOptPunct(s, i) ==
    LET l == OptLetterAt(s, i)
        p == SkipSpace(s, l + 1)
        e == SkipSpace(s, p + 1)
    IN  IF l > 0 /\ At(s, p) \in {")", ".", ":", "-"} /\ IsNonSpace(At(s, e))
        THEN e ELSE 0

\* /(^|[\n ]+)([a-dA-D])\s+(?=\S)/g
MatchOptBlank(s, i) ==
    LET l == OptLetterAt(s, i)
        e == SkipSpace(s, l + 1)
    IN  IF l > 0 /\ e > l + 1 /\ IsNonSpace(At(s, e))
        THEN e ELSE 0

\* the replacement `\n${letter.toUpperCase()}. `
ReplOpt(s, i) == <<"\n", UpperChar(s[OptLetterAt(s, i)]), ".", " ">>

Match(pat, s, i) ==
    CASE pat = "br" -> MatchBr(s, i)
      [] pat = "splitcau" -> MatchSplitCau(s, i)
      [] pat = "blanks" -> MatchBlanks(s, i)
      [] pat = "nl3" -> MatchNewlines(3, s, i)
      [] pat = "nl2" -> MatchNewlines(2, s, i)
      [] pat = "cau" -> MatchCau(s, i)
      [] pat = "optpunct" -> MatchOptPunct(s, i)
      [] pat = "optblank" -> MatchOptBlank(s, i)

Replacement(pat, s, i) ==
    CASE pat = "br" -> <<"\n">>
      [] pat = "splitcau" -> <<"C", "â", "u">>
      [] pat = "blanks" -> <<" ">>
      [] pat = "nl3" -> <<"\n", "\n">>
      [] pat = "nl2" -> <<"\n">>
      [] pat = "cau" -> ReplCau(s, i)
      [] pat = "optpunct" -> ReplOpt(s, i)
      [] pat = "optblank" -> ReplOpt(s, i)

\* the least element of a non-empty set of indexes
Least(set) == CHOOSE i \in set : \A j \in set : i <= j

\* the indexes of s at which the pattern matches
Hits(pat, s) == {i \in 1..Len(s) : Match(pat, s, i) > i}

RECURSIVE ReplaceFrom(_, _, _, _)
\* String.prototype.replace with a global pattern: leftmost matches, left to
\* right, the search resuming after each match
ReplaceFrom(pat, s, i, hits) ==
    LET later == {m \in hits : m >= i}
        m == Least(later)
    IN  IF later = {} THEN Sub(s, i, Len(s) + 1)
        ELSE Sub(s, i, m) \o Replacement(pat, s, m)
                 \o ReplaceFrom(pat, s, Match(pat, s, m), hits)

\* the replacement is computed on the value of s and of its set of matches
\* (a bound variable holds a value, an operator argument an expression)
ReplaceHits(pat, s) ==
    CHOOSE r \in {ReplaceFrom(pat, s, 1, hits) : hits \in {Hits(pat, s)}} : TRUE

ReplaceAll(pat, s) == CHOOSE r \in {ReplaceHits(pat, x) : x \in {s}} : TRUE

\* s.replace(/\r/g, "\n")
ReplaceCR(s) == [i \in 1..Len(s) |-> IF s[i] = "\r" THEN "\n" ELSE s[i]]

RECURSIVE SplitFrom(_, _)
\* the pieces of s from index from on, cut at each line break
SplitFrom(s, from) ==
    LET breaks == {i \in from..Len(s) : s[i] = "\n"}
    IN  IF breaks = {} THEN << Sub(s, from, Len(s) + 1) >>
        ELSE << Sub(s, from, Least(breaks)) >> \o SplitFrom(s, Least(breaks) + 1)

\* s.split("\n")
SplitLines(s) == SplitFrom(s, 1)

RECURSIVE JoinWith(_, _)
\* lines.join(sep)
JoinWith(sep, lines) ==
    IF Len(lines) = 0 THEN << >>
    ELSE IF Len(lines) = 1 THEN lines[1]
    ELSE lines[1] \o sep \o JoinWith(sep, Tail(lines))

\* /^CHƯƠNG\s*\d+/i
IsChapterHeading(line) ==
    /\ LitAtCI(line, 1, <<"C", "H", "Ư", "Ơ", "N", "G">>)
    /\ IsDigit(At(line, SkipSpace(line, 7)))

\* /^Phần\s+/i
IsPartHeading(line) ==
    /\ LitAtCI(line, 1, <<"P", "h", "ầ", "n">>)
    /\ IsSpace(At(line, 5))

\* the filter of canonicalizeQuizText
KeepLine(line) ==
    /\ line # << >>
    /\ ~IsChapterHeading(line)
    /\ ~IsPartHeading(line)

\* lines.map(f) for f = trim
TrimAll(lines) == [i \in 1..Len(lines) |-> Trim(lines[i])]

\* s.split("\n").map(trim).filter(...).join("\n")
FilterLines(s) ==
    CHOOSE r \in {JoinWith(<<"\n">>, SelectSeq(TrimAll(SplitLines(x)), KeepLine))
                      : x \in {s}} : TRUE

canonicalizeQuizText(input) ==
    LET s1 == ReplaceCR(input)
        s2 == ReplaceAll("br", s1)
        s3 == ReplaceAll("splitcau", s2)
        s4 == ReplaceAll("blanks", s3)
        s5 == ReplaceAll("nl3", s4)
        s6 == ReplaceAll("cau", s5)
        s7 == ReplaceAll("optpunct", s6)
        s8 == ReplaceAll("optblank", s7)
        s9 == FilterLines(s8)
    IN  Trim(ReplaceAll("nl2", s9))

(***************************************************************************)
(* parseQuestionsFromText                                                  *)
(***************************************************************************)

\* the value of one decimal digit
DigitValue(c) ==
    CASE c = "0" -> 0 [] c = "1" -> 1 [] c = "2" -> 2 [] c = "3" -> 3
      [] c = "4" -> 4 [] c = "5" -> 5 [] c = "6" -> 6 [] c = "7" -> 7
      [] c = "8" -> 8 [] c = "9" -> 9

RECURSIVE DigitsToNat(_)
\* Number(digits) for a string of decimal digits
DigitsToNat(ds) ==
    IF Len(ds) = 0 THEN 0
    ELSE 10 * DigitsToNat(Sub(ds, 1, Len(ds))) + DigitValue(ds[Len(ds)])

DigitChar(n) ==
    CASE n = 0 -> "0" [] n = 1 -> "1" [] n = 2 -> "2" [] n = 3 -> "3"
      [] n = 4 -> "4" [] n = 5 -> "5" [] n = 6 -> "6" [] n = 7 -> "7"
      [] n = 8 -> "8" [] n = 9 -> "9"

RECURSIVE NatToString(_)
\* String(n) for a natural number
NatToString(n) ==
    IF n < 10 THEN << DigitChar(n) >>
    ELSE NatToString(n \div 10) \o << DigitChar(n % 10) >>

\* the lookahead of /(?=^Câu\s*\d+\:\s)/gim at index i
HeaderAhead(s, i) ==
    LET d == SkipSpace(s, i + 3)
        e == SkipDigits(s, d)
    IN  /\ i = 1 \/ At(s, i - 1) = "\n"
        /\ LitAtCI(s, i, <<"C", "â", "u">>)
        /\ e > d
        /\ At(s, e) = ":"
        /\ IsSpace(At(s, e + 1))

RECURSIVE SplitBlocksFrom(_, _)
\* the pieces of s from index from on, cut before each header that does not
\* start the piece
SplitBlocksFrom(s, from) ==
    LET heads == {i \in (from + 1)..Len(s) : HeaderAhead(s, i)}
    IN  IF heads = {} THEN << Sub(s, from, Len(s) + 1) >>
        ELSE << Sub(s, from, Least(heads)) >> \o SplitBlocksFrom(s, Least(heads))

\* text.split(/(?=^Câu\s*\d+\:\s)/gim)
SplitBlocks(s) == SplitBlocksFrom(s, 1)

\* headRe = /^Câu\s*(\d+)\:\s*([\s\S]*)$/i
HeadDigitsAt(block) == SkipSpace(block, 4)

HeadMatches(block) ==
    LET d == HeadDigitsAt(block)
        e == SkipDigits(block, d)
    IN  LitAtCI(block, 1, <<"C", "â", "u">>) /\ e > d /\ At(block, e) = ":"

\* mh[1]
HeadNumber(block) ==
    LET d == HeadDigitsAt(block)
    IN  Sub(block, d, SkipDigits(block, d))

\* mh[2]
HeadBody(block) ==
    LET e == SkipDigits(block, HeadDigitsAt(block))
    IN  Sub(block, SkipSpace(block, e + 1), Len(block) + 1)

NonEmpty(line) == line # << >>

\* body.split("\n").map((x) => x.trim()).filter(Boolean)
BodyLines(body) == SelectSeq(TrimAll(SplitLines(body)), NonEmpty)

\* optRe = /^([A-D])\.\s*(.+)$/i on a line without line breaks
OptMatches(line) ==
    /\ Len(line) >= 3
    /\ UpperChar(line[1]) \in {"A", "B", "C", "D"}
    /\ line[2] = "."

\* { key: mo[1].toUpperCase(), text: mo[2].trim() }
OptOf(line) ==
    [key |-> UpperChar(line[1]), text |-> Trim(Sub(line, 3, Len(line) + 1))]

\* options[options.length - 1].text = (text + " " + line).trim()
AppendToLast(options, line) ==
    [options EXCEPT ![Len(options)].text = Trim(@ \o <<" ">> \o line)]

RECURSIVE WalkLinesToPrompt(_, _, _, _, _)
\* the loop over the lines without inOptions: every line that is not an
\* option line goes to the prompt
WalkLinesToPrompt(lines, i, promptLines, options, inOptions) ==
    IF i > Len(lines) THEN [promptLines |-> promptLines, options |-> options]
    ELSE IF OptMatches(lines[i])
         THEN WalkLinesToPrompt(lines, i + 1, promptLines,
                                Append(options, OptOf(lines[i])), TRUE)
         ELSE WalkLinesToPrompt(lines, i + 1, Append(promptLines, lines[i]),
                                options, inOptions)

RECURSIVE WalkLines(_, _, _, _, _)
\* the loop over the lines of one block: the prompt lines and the options
WalkLines(lines, i, promptLines, options, inOptions) ==
    IF i > Len(lines) THEN [promptLines |-> promptLines, options |-> options]
    ELSE IF OptMatches(lines[i])
         THEN WalkLines(lines, i + 1, promptLines,
                        Append(options, OptOf(lines[i])), TRUE)
         ELSE IF ~inOptions
              THEN WalkLines(lines, i + 1, Append(promptLines, lines[i]),
                             options, inOptions)
              ELSE IF Len(options) > 0
                   THEN WalkLines(lines, i + 1, promptLines,
                                  AppendToLast(options, lines[i]), inOptions)
                   ELSE WalkLines(lines, i + 1, promptLines, options, inOptions)

\* the fixed prompt "(Không tách được đề câu hỏi)", kept as one token and
\* written without its diacritics
PromptPlaceholder == << "(Khong tach duoc de cau hoi)" >>

\* the question with id: m[1], the digits as written, for id: String(number)
QuestionOfRawId(block) ==
    LET number == DigitsToNat(HeadNumber(block))
        w == WalkLines(BodyLines(Trim(HeadBody(block))), 1, << >>, << >>, FALSE)
        joined == Trim(JoinWith(<<" ">>, w.promptLines))
    IN  [id |-> HeadNumber(block),
         number |-> number,
         prompt |-> IF joined = << >> THEN PromptPlaceholder ELSE joined,
         options |-> w.options]

\* the question pushed for one block that matches headRe
QuestionOf(block) ==
    LET number == DigitsToNat(HeadNumber(block))
        w == WalkLines(BodyLines(Trim(HeadBody(block))), 1, << >>, << >>, FALSE)
        joined == Trim(JoinWith(<<" ">>, w.promptLines))
    IN  [id |-> NatToString(number),
         number |-> number,
         prompt |-> IF joined = << >> THEN PromptPlaceholder ELSE joined,
         options |-> w.options]

RECURSIVE QuestionsOfBlocksAborting(_, _)
\* the loop over the blocks with return for continue: the first block that is
\* empty or does not match the header ends the parse
QuestionsOfBlocksAborting(blocks, i) ==
    IF i > Len(blocks) THEN << >>
    ELSE LET block == Trim(blocks[i])
         IN  IF block # << >> /\ HeadMatches(block)
             THEN << QuestionOf(block) >> \o QuestionsOfBlocksAborting(blocks, i + 1)
             ELSE << >>

RECURSIVE QuestionsOfBlocks(_, _)
\* the loop over the blocks: empty blocks and blocks that do not match the
\* header are skipped
QuestionsOfBlocks(blocks, i) ==
    IF i > Len(blocks) THEN << >>
    ELSE LET block == Trim(blocks[i])
         IN  IF block # << >> /\ HeadMatches(block)
             THEN << QuestionOf(block) >> \o QuestionsOfBlocks(blocks, i + 1)
             ELSE QuestionsOfBlocks(blocks, i + 1)

parseQuestionsFromText(rawText) ==
    CHOOSE qs \in {QuestionsOfBlocks(blocks, 1)
                       : blocks \in {SplitBlocks(canonicalizeQuizText(rawText))}} : TRUE

(***************************************************************************)
(* Objects used as maps (answers, answerKey, keyById): functions from      *)
(* question ids to strings.  JSON documents as JSON.parse returns them.     *)
(***************************************************************************)

EmptyMap == [k \in {} |-> << >>]

\* m[k] || ""
Get(m, k) == IF k \in DOMAIN m THEN m[k] ELSE << >>

\* { ...m, [k]: v }
Put(m, k, v) == [x \in DOMAIN m \cup {k} |-> IF x = k THEN v ELSE m[x]]

\* delete m[k]
Delete(m, k) == [x \in DOMAIN m \ {k} |-> m[x]]

\* a file whose text JSON.parse rejects
\* a JSON value: its type and, by type, its number, its characters or its
\* entries (an object's [k, v] pairs in Object.entries order, an array's items)
Json(kind, num, str, items) == [kind |-> kind, num |-> num, str |-> str, items |-> items]

\* what JSON.parse throws on
InvalidJson == Json("invalid", 0, << >>, << >>)

JsUndefined == Json("undefined", 0, << >>, << >>)
JsNull == Json("null", 0, << >>, << >>)
JsBool(b) == Json("bool", IF b THEN 1 ELSE 0, << >>, << >>)
JsNum(n) == Json("number", n, << >>, << >>)
JsStr(s) == Json("string", 0, s, << >>)
JsObj(entries) == Json("object", 0, << >>, entries)
JsArr(items) == Json("array", 0, << >>, items)

NaN == [nan |-> TRUE, n |-> 0]
Num(n) == [nan |-> FALSE, n |-> n]

AllDigits(s) == \A i \in 1..Len(s) : IsDigit(s[i])

\* Number(s) for a string of digits, white space and other characters: the
\* trimmed string is empty (0), a decimal numeral, or not a number
StringToNumber(s) ==
    LET t == Trim(s)
    IN  IF t = << >> THEN Num(0)
        ELSE IF AllDigits(t) THEN Num(DigitsToNat(t))
        ELSE NaN

\* Number(x) for a primitive JSON value, an object or undefined
JsNumber(x) ==
    CASE x.kind = "number" -> Num(x.num)
      [] x.kind = "string" -> StringToNumber(x.str)
      [] x.kind = "bool" -> Num(x.num)
      [] x.kind = "null" -> Num(0)
      [] OTHER -> NaN

\* item?.name
Field(item, name) ==
    IF item.kind # "object" THEN JsUndefined
    ELSE LET hits == {i \in 1..Len(item.items) : item.items[i].k = name}
         IN  IF hits = {} THEN JsUndefined ELSE item.items[CHOOSE i \in hits : TRUE].v

isValidChoice(x) ==
    /\ x.kind = "string"
    /\ Len(Trim(x.str)) = 1
    /\ UpperChar(Trim(x.str)[1]) \in {"A", "B", "C", "D", "E"}

\* String(v).toUpperCase().trim()
NormalChoice(x) == Trim(ToUpper(x.str))

\* Number(q.number || idx + 1)
LookupNumber(q, idx) == IF q.number # 0 THEN q.number ELSE idx

RECURSIVE NumberToIdFrom(_, _, _)
NumberToIdFrom(questions, idx, map) ==
    IF idx > Len(questions) THEN map
    ELSE NumberToIdFrom(questions, idx + 1,
                        Put(map, LookupNumber(questions[idx], idx), questions[idx].id))

\* the Map numberToId built by questions.forEach
NumberToId(questions) == NumberToIdFrom(questions, 1, [n \in {} |-> << >>])

\* one pass of either loop of importAnswerKeyFromJsonFile: the entry is
\* skipped or stored
ImportEntry(keyById, numberToId, numeral, choice) ==
    LET num == JsNumber(numeral)
    IN  IF num.nan THEN keyById
        ELSE IF ~isValidChoice(choice) THEN keyById
        ELSE IF num.n \in DOMAIN numberToId
             THEN Put(keyById, numberToId[num.n], NormalChoice(choice))
             ELSE keyById

RECURSIVE ImportObject(_, _, _, _)
\* for (const [k, v] of Object.entries(data))
ImportObject(entries, i, numberToId, keyById) ==
    IF i > Len(entries) THEN keyById
    ELSE ImportObject(entries, i + 1, numberToId,
                      ImportEntry(keyById, numberToId, JsStr(entries[i].k), entries[i].v))

RECURSIVE ImportArray(_, _, _, _)
\* for (const item of data)
ImportArray(items, i, numberToId, keyById) ==
    IF i > Len(items) THEN keyById
    ELSE ImportArray(items, i + 1, numberToId,
                     ImportEntry(keyById, numberToId,
                                 Field(items[i], <<"n", "u", "m", "b", "e", "r">>),
                                 Field(items[i], <<"a", "n", "s", "w", "e", "r">>)))

Thrown(message) == [ok |-> FALSE, keyById |-> EmptyMap, error |-> message]
Returned(keyById) == [ok |-> TRUE, keyById |-> keyById, error |-> ""]

\* the result of the promise: the mapping, or the Error thrown
\* the import without its Array.isArray(data) branch
importAnswerKeyObjectsOnly(data, questions) ==
    IF data.kind = "invalid" THEN Thrown("parse")
    ELSE IF data.kind = "object"
         THEN Returned(ImportObject(data.items, 1, NumberToId(questions), EmptyMap))
    ELSE Thrown("format")

importAnswerKeyFromJsonFile(data, questions) ==
    IF data.kind = "invalid" THEN Thrown("parse")
    ELSE IF data.kind = "object"
         THEN Returned(ImportObject(data.items, 1, NumberToId(questions), EmptyMap))
    ELSE IF data.kind = "array"
         THEN Returned(ImportArray(data.items, 1, NumberToId(questions), EmptyMap))
    ELSE Thrown("format")

(***************************************************************************)
(* The App component: its state, what it reads and writes outside itself,  *)
(* and the asynchronous handlers in flight                                 *)
(***************************************************************************)

VARIABLES
    pdfFiles,       \* the PDF files the user can pick: name -> text that
                    \* extractTextFromPdf returns, or Unreadable
    keyFiles,       \* the answer-key files the user can pick (JSON documents)
    fileName, rawText, questions, loading,      \* useState
    answers, answerKey, mode, submitted,        \* useState
    localStorage,   \* file name -> the payload saved under LS_PREFIX + name
    extracting,     \* onUploadPdf calls awaiting extractTextFromPdf:
                    \* file name -> how many
    importing,      \* onUploadKeyJson calls awaiting the import: the data
                    \* of the file and the questions passed to the call
    alert,          \* what the last step showed with alert(), or NoAlert
    download,       \* the answer-key.json the last step offered, or NoDownload
    settled         \* the import call the last step settled, with the value
                    \* or the error of its promise, or NoCall

vars == <<pdfFiles, keyFiles, fileName, rawText, questions, loading, answers,
          answerKey, mode, submitted, localStorage, extracting, importing,
          alert, download, settled>>

env == <<pdfFiles, keyFiles>>

\* extractTextFromPdf rejects (the catch branch of onUploadPdf)
Unreadable == << "unreadable" >>

\* localStorage.getItem returns null
NoItem == [none |-> TRUE]

NoAlert == [kind |-> "none", n |-> 0]
NoDownload == Json("none", 0, << >>, << >>)
NoCall == [none |-> TRUE]

\* fileName = "" before the first upload
NoFile == ""

\* -- derived values (useMemo) ------------------------------------------

Indexes == 1..Len(questions)

\* (answers[q.id] || "").trim() is not empty
answeredCount == Cardinality({i \in Indexes : Trim(Get(answers, questions[i].id)) # << >>})

keyedCount == Cardinality({i \in Indexes : Get(answerKey, questions[i].id) # << >>})

canScore == keyedCount > 0

NoScore == [none |-> TRUE]

RECURSIVE ScoreFromLateCount(_, _, _, _)
\* the loop with totalKeyed++ moved below the test of the submission
ScoreFromLateCount(i, correctCount, wrongCount, totalKeyed) ==
    IF i > Len(questions)
    THEN [correctCount |-> correctCount, wrongCount |-> wrongCount,
          totalKeyed |-> totalKeyed]
    ELSE LET key == ToUpper(Get(answerKey, questions[i].id))
             sel == ToUpper(Get(answers, questions[i].id))
         IN  IF key = << >> \/ sel = << >>
             THEN ScoreFromLateCount(i + 1, correctCount, wrongCount, totalKeyed)
             ELSE IF sel = key
                  THEN ScoreFromLateCount(i + 1, correctCount + 1, wrongCount, totalKeyed + 1)
             ELSE ScoreFromLateCount(i + 1, correctCount, wrongCount + 1, totalKeyed + 1)

RECURSIVE ScoreFromNoSkip(_, _, _, _)
\* the loop without "if (!sel) continue"
ScoreFromNoSkip(i, correctCount, wrongCount, totalKeyed) ==
    IF i > Len(questions)
    THEN [correctCount |-> correctCount, wrongCount |-> wrongCount,
          totalKeyed |-> totalKeyed]
    ELSE LET key == ToUpper(Get(answerKey, questions[i].id))
             sel == ToUpper(Get(answers, questions[i].id))
         IN  IF key = << >> THEN ScoreFromNoSkip(i + 1, correctCount, wrongCount, totalKeyed)
             ELSE IF sel = key
                  THEN ScoreFromNoSkip(i + 1, correctCount + 1, wrongCount, totalKeyed + 1)
             ELSE ScoreFromNoSkip(i + 1, correctCount, wrongCount + 1, totalKeyed + 1)

RECURSIVE ScoreFrom(_, _, _, _)
\* the loop of the score memo
ScoreFrom(i, correctCount, wrongCount, totalKeyed) ==
    IF i > Len(questions)
    THEN [correctCount |-> correctCount, wrongCount |-> wrongCount,
          totalKeyed |-> totalKeyed]
    ELSE LET key == ToUpper(Get(answerKey, questions[i].id))
             sel == ToUpper(Get(answers, questions[i].id))
         IN  IF key = << >> THEN ScoreFrom(i + 1, correctCount, wrongCount, totalKeyed)
             ELSE IF sel = << >>
                  THEN ScoreFrom(i + 1, correctCount, wrongCount, totalKeyed + 1)
             ELSE IF sel = key
                  THEN ScoreFrom(i + 1, correctCount + 1, wrongCount, totalKeyed + 1)
             ELSE ScoreFrom(i + 1, correctCount, wrongCount + 1, totalKeyed + 1)

score == IF ~submitted \/ ~canScore THEN NoScore ELSE ScoreFrom(1, 0, 0, 0)

\* statusOf without "if (!sel) return 'unanswered_keyed'"
statusOfNoUnanswered(q) ==
    LET key == ToUpper(Get(answerKey, q.id))
        sel == ToUpper(Get(answers, q.id))
    IN  IF ~submitted THEN (IF sel # << >> THEN "answered" ELSE "unanswered")
        ELSE IF key = << >>
             THEN (IF sel # << >> THEN "answered_nokey" ELSE "nokey")
        ELSE IF sel = key THEN "correct" ELSE "wrong"

statusOf(q) ==
    LET key == ToUpper(Get(answerKey, q.id))
        sel == ToUpper(Get(answers, q.id))
    IN  IF ~submitted THEN (IF sel # << >> THEN "answered" ELSE "unanswered")
        ELSE IF key = << >>
             THEN (IF sel # << >> THEN "answered_nokey" ELSE "nokey")
        ELSE IF sel = << >> THEN "unanswered_keyed"
        ELSE IF sel = key THEN "correct" ELSE "wrong"

\* -- the autosave effects ----------------------------------------------

\* the payload of the save effect (ts is never read back)
Payload(ans, key, md, sub) ==
    [answers |-> ans, answerKey |-> key, mode |-> md, submitted |-> sub]

\* the restore effect runs when storageKey changed to a non-empty key under
\* which an item is saved
Restores(fn) == fn # NoFile /\ fn # fileName /\ localStorage[fn] # NoItem

\* One commit: the state the handler set, then the effects.  The restore
\* effect (deps [storageKey]) reads the saved item and sets answers,
\* answerKey, mode and submitted from it; the save effect of the same commit
\* writes the handler's values, and the save effect of the re-render that
\* the restore causes writes the restored ones, so the item ends equal to
\* the state.
Commit(fn, rt, qs, ld, ans, key, md, sub) ==
    LET saved == localStorage[fn]
        now == IF Restores(fn)
               THEN Payload(saved.answers, saved.answerKey, saved.mode, saved.submitted)
               ELSE Payload(ans, key, md, sub)
    IN  /\ fileName' = fn
        /\ rawText' = rt
        /\ questions' = qs
        /\ loading' = ld
        /\ answers' = now.answers
        /\ answerKey' = now.answerKey
        /\ mode' = now.mode
        /\ submitted' = now.submitted
        /\ localStorage' = IF fn = NoFile THEN localStorage
                           ELSE [localStorage EXCEPT ![fn] = now]

\* -- handlers ----------------------------------------------------------

RECURSIVE SumOver(_, _)
SumOver(f, set) ==
    IF set = {} THEN 0
    ELSE LET x == CHOOSE y \in set : TRUE IN f[x] + SumOver(f, set \ {x})

\* onUploadPdf up to its await: the reset, setFileName and setLoading(true)
\* onUploadPdf without its "reset state for new pdf" of the work
onUploadPdfKeepsWork(f) ==
    /\ Commit(f, << >>, << >>, TRUE, answers, answerKey, mode, submitted)
    /\ extracting' = [extracting EXCEPT ![f] = @ + 1]
    /\ alert' = NoAlert
    /\ download' = NoDownload
    /\ settled' = NoCall
    /\ UNCHANGED <<env, importing>>

onUploadPdf(f) ==
    /\ Commit(f, << >>, << >>, TRUE, EmptyMap, EmptyMap, mode, FALSE)
    /\ extracting' = [extracting EXCEPT ![f] = @ + 1]
    /\ alert' = NoAlert
    /\ download' = NoDownload
    /\ settled' = NoCall
    /\ UNCHANGED <<env, importing>>

\* onUploadPdf after the await: try, catch and finally
onUploadPdfSettled(f) ==
    /\ extracting[f] > 0
    /\ extracting' = [extracting EXCEPT ![f] = @ - 1]
    /\ IF pdfFiles[f] # Unreadable
       THEN LET cleaned == canonicalizeQuizText(pdfFiles[f])
            IN  /\ Commit(fileName, cleaned, parseQuestionsFromText(cleaned), FALSE,
                          answers, answerKey, "quiz", submitted)
                /\ alert' = NoAlert
       ELSE /\ Commit(fileName, rawText, questions, FALSE,
                      answers, answerKey, mode, submitted)
            /\ alert' = [kind |-> "pdf-error", n |-> 0]
    /\ download' = NoDownload
    /\ settled' = NoCall
    /\ UNCHANGED <<env, importing>>

\* onUploadKeyJson up to its await (the input is disabled without questions)
onUploadKeyJson(data) ==
    /\ questions # << >>
    /\ importing' = importing \cup {[data |-> data, questions |-> questions]}
    /\ alert' = NoAlert
    /\ download' = NoDownload
    /\ settled' = NoCall
    /\ UNCHANGED <<env, fileName, rawText, questions, loading, answers, answerKey,
                   mode, submitted, localStorage, extracting>>

\* the object { ...m, ...n }
Merged(m, n) == [k \in DOMAIN m \cup DOMAIN n |-> IF k \in DOMAIN n THEN n[k] ELSE m[k]]

\* onUploadKeyJson after the await with setAnswerKey((p) => ({ ...p, ...imported }))
onUploadKeyJsonMerging(call) ==
    /\ call \in importing
    /\ importing' = importing \ {call}
    /\ LET r == importAnswerKeyFromJsonFile(call.data, call.questions)
       IN  IF r.ok
           THEN /\ Commit(fileName, rawText, questions, loading,
                          answers, Merged(answerKey, r.keyById), mode, FALSE)
                /\ alert' = [kind |-> "import-ok", n |-> Cardinality(DOMAIN r.keyById)]
           ELSE /\ Commit(fileName, rawText, questions, loading,
                          answers, answerKey, mode, submitted)
                /\ alert' = [kind |-> r.error, n |-> 0]
    /\ download' = NoDownload
    /\ settled' = [data |-> call.data, questions |-> call.questions,
                   result |-> importAnswerKeyFromJsonFile(call.data, call.questions)]
    /\ UNCHANGED <<env, extracting>>

\* onUploadKeyJson after the await: try and catch
onUploadKeyJsonSettled(call) ==
    /\ call \in importing
    /\ importing' = importing \ {call}
    /\ LET r == importAnswerKeyFromJsonFile(call.data, call.questions)
       IN  IF r.ok
           THEN /\ Commit(fileName, rawText, questions, loading,
                          answers, r.keyById, mode, FALSE)
                /\ alert' = [kind |-> "import-ok", n |-> Cardinality(DOMAIN r.keyById)]
           ELSE /\ Commit(fileName, rawText, questions, loading,
                          answers, answerKey, mode, submitted)
                /\ alert' = [kind |-> r.error, n |-> 0]
    /\ download' = NoDownload
    /\ settled' = [data |-> call.data, questions |-> call.questions,
                   result |-> importAnswerKeyFromJsonFile(call.data, call.questions)]
    /\ UNCHANGED <<env, extracting>>

RECURSIVE ExportFrom(_, _)
\* the object out of exportAnswerKey: number -> answer, a later question
\* overwriting an earlier one under the same number
ExportFrom(idx, out) ==
    IF idx > Len(questions) THEN out
    ELSE LET ans == Get(answerKey, questions[idx].id)
         IN  IF ans # << >>
             THEN ExportFrom(idx + 1, Put(out, LookupNumber(questions[idx], idx), ans))
             ELSE ExportFrom(idx + 1, out)

RECURSIVE EntriesOf(_)
\* Object.entries of an object whose keys are integer numerals: ascending
EntriesOf(out) ==
    IF DOMAIN out = {} THEN << >>
    ELSE LET n == CHOOSE x \in DOMAIN out : \A y \in DOMAIN out : x <= y
         IN  << [k |-> NatToString(n), v |-> JsStr(out[n])] >>
             \o EntriesOf([x \in DOMAIN out \ {n} |-> out[x]])

\* the document JSON.stringify(out) writes
ExportedKey == JsObj(EntriesOf(ExportFrom(1, [n \in {} |-> << >>])))

\* the export button (shown in key mode, disabled without questions)
exportAnswerKey ==
    /\ mode = "key"
    /\ questions # << >>
    /\ download' = ExportedKey
    /\ settled' = NoCall
    /\ alert' = NoAlert
    /\ UNCHANGED <<env, fileName, rawText, questions, loading, answers, answerKey,
                   mode, submitted, localStorage, extracting, importing>>

\* the radio buttons are shown in quiz mode when not loading
QuizShown == mode = "quiz" /\ ~loading /\ questions # << >>

\* the selects are shown in key mode when not loading
KeyEditorShown == mode = "key" /\ ~loading /\ questions # << >>

OptionKeys(q) == {q.options[i].key : i \in 1..Len(q.options)}

\* setChoice with setAnswers({ [qid]: choice }), the other entries not spread
setChoiceAlone(qid, choice) ==
    /\ QuizShown
    /\ \E i \in Indexes : questions[i].id = qid /\ choice \in OptionKeys(questions[i])
    /\ Commit(fileName, rawText, questions, loading,
              Put(EmptyMap, qid, << choice >>), answerKey, mode, submitted)
    /\ alert' = NoAlert
    /\ download' = NoDownload
    /\ settled' = NoCall
    /\ UNCHANGED <<env, extracting, importing>>

setChoice(qid, choice) ==
    /\ QuizShown
    /\ \E i \in Indexes : questions[i].id = qid /\ choice \in OptionKeys(questions[i])
    /\ Commit(fileName, rawText, questions, loading,
              Put(answers, qid, << choice >>), answerKey, mode, submitted)
    /\ alert' = NoAlert
    /\ download' = NoDownload
    /\ settled' = NoCall
    /\ UNCHANGED <<env, extracting, importing>>

\* choice "" is the entry "(Chưa đặt)" of the select
setKeyChoice(qid, choice) ==
    /\ KeyEditorShown
    /\ \E i \in Indexes :
          questions[i].id = qid /\ choice \in OptionKeys(questions[i]) \cup {""}
    /\ Commit(fileName, rawText, questions, loading, answers,
              IF choice = "" THEN Delete(answerKey, qid)
              ELSE Put(answerKey, qid, << choice >>),
              mode, submitted)
    /\ alert' = NoAlert
    /\ download' = NoDownload
    /\ settled' = NoCall
    /\ UNCHANGED <<env, extracting, importing>>

\* the two mode buttons (disabled without questions)
setMode(m) ==
    /\ questions # << >>
    /\ Commit(fileName, rawText, questions, loading, answers, answerKey, m, submitted)
    /\ alert' = NoAlert
    /\ download' = NoDownload
    /\ settled' = NoCall
    /\ UNCHANGED <<env, extracting, importing>>

\* the button "Nộp bài": setSubmitted(true)
setSubmitted ==
    /\ mode = "quiz"
    /\ questions # << >>
    /\ Commit(fileName, rawText, questions, loading, answers, answerKey, mode, TRUE)
    /\ alert' = NoAlert
    /\ download' = NoDownload
    /\ settled' = NoCall
    /\ UNCHANGED <<env, extracting, importing>>

\* the button "Làm lại"
resetQuiz ==
    /\ mode = "quiz"
    /\ questions # << >>
    /\ Commit(fileName, rawText, questions, loading, EmptyMap, answerKey, mode, FALSE)
    /\ alert' = NoAlert
    /\ download' = NoDownload
    /\ settled' = NoCall
    /\ UNCHANGED <<env, extracting, importing>>

\* the page is loaded again: the component is mounted anew, the handlers in
\* flight are gone, localStorage stays
reload ==
    /\ fileName # NoFile
    /\ fileName' = NoFile
    /\ rawText' = << >>
    /\ questions' = << >>
    /\ loading' = FALSE
    /\ answers' = EmptyMap
    /\ answerKey' = EmptyMap
    /\ mode' = "quiz"
    /\ submitted' = FALSE
    /\ extracting' = [f \in DOMAIN extracting |-> 0]
    /\ importing' = {}
    /\ alert' = NoAlert
    /\ download' = NoDownload
    /\ settled' = NoCall
    /\ UNCHANGED <<env, localStorage>>

\* the state after the component is mounted, for the given files
Mounted(pdfs, keys) ==
    /\ pdfFiles = pdfs
    /\ keyFiles = keys
    /\ fileName = NoFile
    /\ rawText = << >>
    /\ questions = << >>
    /\ loading = FALSE
    /\ answers = EmptyMap
    /\ answerKey = EmptyMap
    /\ mode = "quiz"
    /\ submitted = FALSE
    /\ localStorage = [f \in DOMAIN pdfs |-> NoItem]
    /\ extracting = [f \in DOMAIN pdfs |-> 0]
    /\ importing = {}
    /\ alert = NoAlert
    /\ download = NoDownload
    /\ settled = NoCall

\* the state after onUploadPdf(f) and its continuation, from Mounted
Loaded(pdfs, keys, f) ==
    LET cleaned == canonicalizeQuizText(pdfs[f])
    IN  /\ pdfFiles = pdfs
        /\ keyFiles = keys
        /\ fileName = f
        /\ rawText = cleaned
        /\ questions = parseQuestionsFromText(cleaned)
        /\ loading = FALSE
        /\ answers = EmptyMap
        /\ answerKey = EmptyMap
        /\ mode = "quiz"
        /\ submitted = FALSE
        /\ localStorage = [g \in DOMAIN pdfs |->
                             IF g = f THEN Payload(EmptyMap, EmptyMap, "quiz", FALSE)
                             ELSE NoItem]
        /\ extracting = [g \in DOMAIN pdfs |-> 0]
        /\ importing = {}
        /\ alert = NoAlert
        /\ download = NoDownload
        /\ settled = NoCall

\* the handler calls in flight
InFlight == SumOver(extracting, DOMAIN extracting) + Cardinality(importing)

QuestionIds == {questions[i].id : i \in Indexes}

Letters == {"A", "B", "C", "D"}

(***************************************************************************)
(* Spec: two documents, their autosaved work, overlapping handlers and     *)
(* page reloads                                                            *)
(***************************************************************************)

\* how many asynchronous handler calls (onUploadPdf, onUploadKeyJson) may be
\* awaiting their file at once
MaxInFlight == 2

\* "Câu 1: p a) x"
DocA ==
    <<"C", "â", "u", " ", "1", ":", " ", "p", " ", "a", ")", " ", "x">>

\* "Câu 2: q a) x"
DocB ==
    <<"C", "â", "u", " ", "2", ":", " ", "q", " ", "a", ")", " ", "x">>

AppPdfFiles == [f \in {"a.pdf", "b.pdf"} |-> IF f = "a.pdf" THEN DocA ELSE DocB]

\* {"1": "a", "2": "A"}
AppKeyFiles ==
    { JsObj(<< [k |-> <<"1">>, v |-> JsStr(<<"a">>)],
               [k |-> <<"2">>, v |-> JsStr(<<"A">>)] >>) }

Init == Mounted(AppPdfFiles, AppKeyFiles)

Next ==
    \/ \E f \in DOMAIN pdfFiles : InFlight < MaxInFlight /\ onUploadPdf(f)
    \/ \E f \in DOMAIN pdfFiles : onUploadPdfSettled(f)
    \/ \E data \in keyFiles : InFlight < MaxInFlight /\ onUploadKeyJson(data)
    \/ \E call \in importing : onUploadKeyJsonSettled(call)
    \/ \E qid \in QuestionIds, choice \in Letters : setChoice(qid, choice)
    \/ setSubmitted
    \/ resetQuiz
    \/ reload

Spec == Init /\ [][Next]_vars

(***************************************************************************)
(* SpecQuiz: one document, one handler at a time; answering, keying,       *)
(* importing and exporting the key, submitting                             *)
(***************************************************************************)

\* "Câu 1: p a)x Câu 2: q b)y Câu 3: r"
Doc3 ==
    <<"C", "â", "u", " ", "1", ":", " ", "p", " ", "a", ")", "x", " ", "C", "â", "u", " ", "2", ":", " ", "q", " ", "b", ")", "y", " ", "C", "â", "u", " ", "3", ":", " ", "r">>
\* "Câu 1: p a) x Câu 01: q a) y"
DocDup ==
    <<"C", "â", "u", " ", "1", ":", " ", "p", " ", "a", ")", " ", "x", " ", "C", "â", "u", " ", "0", "1", ":", " ", "q", " ", "a", ")", " ", "y">>

\* "Câu 0: p a) x Câu 1: q a) y"
DocZero ==
    <<"C", "â", "u", " ", "0", ":", " ", "p", " ", "a", ")", " ", "x", " ", "C", "â", "u", " ", "1", ":", " ", "q", " ", "a", ")", " ", "y">>

\* "Câu 1: p a)x b)y Câu 2: q a)x"
DocTwo ==
    <<"C", "â", "u", " ", "1", ":", " ", "p", " ", "a", ")", "x", " ", "b", ")", "y", " ", "C", "â", "u", " ", "2", ":", " ", "q", " ", "a", ")", "x">>

QuizDocs == {Doc3, DocDup, DocZero, DocTwo}

\* {"1": "a", "2": "C", "3": "D"} and the bare string "A"
QuizKeyFiles ==
    { JsObj(<< [k |-> <<"1">>, v |-> JsStr(<<"a">>)],
               [k |-> <<"2">>, v |-> JsStr(<<"C">>)],
               [k |-> <<"3">>, v |-> JsStr(<<"D">>)] >>),
      JsStr(<<"A">>) }

InitQuiz == \E d \in QuizDocs : Mounted([f \in {"quiz.pdf"} |-> d], QuizKeyFiles)

NextQuiz ==
    \/ \E f \in DOMAIN pdfFiles : InFlight = 0 /\ onUploadPdf(f)
    \/ \E f \in DOMAIN pdfFiles : onUploadPdfSettled(f)
    \/ \E data \in keyFiles : InFlight = 0 /\ onUploadKeyJson(data)
    \/ \E call \in importing : onUploadKeyJsonSettled(call)
    \/ \E qid \in QuestionIds, choice \in Letters : setChoice(qid, choice)
    \/ \E qid \in QuestionIds, choice \in Letters \cup {""} : setKeyChoice(qid, choice)
    \/ \E m \in {"quiz", "key"} : setMode(m)
    \/ setSubmitted
    \/ resetQuiz
    \/ exportAnswerKey

SpecQuiz == InitQuiz /\ [][NextQuiz]_vars

(***************************************************************************)
(* SpecImport: one loaded document and one answer-key file drawn from the  *)
(* JSON documents of at most MaxEntries entries                            *)
(***************************************************************************)

\* how many entries an object, and how many items an array, may hold
MaxEntries == 2

\* "Câu 1: p a) x Câu 2: q a) y"
Doc12 ==
    <<"C", "â", "u", " ", "1", ":", " ", "p", " ", "a", ")", " ", "x", " ", "C", "â", "u", " ", "2", ":", " ", "q", " ", "a", ")", " ", "y">>

ImportDocs == {Doc12, DocDup, DocZero}

ImportNumerals == {<<"1">>, <<"2">>, <<"0", "1">>, <<"0">>, <<"x">>}

ImportChoices == {JsStr(<<"A">>), JsStr(<<" ", "b">>), JsStr(<<"z">>), JsNum(1)}

\* whether Object.entries lists the key among the integer keys, which come
\* first and in ascending order
IsIndexKey(k) == AllDigits(k) /\ (Len(k) = 1 \/ k[1] # "0")

\* the entries are in the order Object.entries gives them
EntriesOrdered(es) ==
    \A i, j \in 1..Len(es) :
        i < j =>
            /\ es[i].k # es[j].k
            /\ IsIndexKey(es[j].k) =>
                  /\ IsIndexKey(es[i].k)
                  /\ DigitsToNat(es[i].k) < DigitsToNat(es[j].k)

SeqsUpTo(set, n) == UNION {[1..m -> set] : m \in 0..n}

ImportObjects ==
    {JsObj(es) : es \in {e \in SeqsUpTo([k : ImportNumerals, v : ImportChoices], MaxEntries) :
                            EntriesOrdered(e)}}

\* a record of an array: its fields number and answer, either may be missing
ItemOf(number, answer) ==
    JsObj(SelectSeq(<< [k |-> <<"n", "u", "m", "b", "e", "r">>, v |-> number],
                       [k |-> <<"a", "n", "s", "w", "e", "r">>, v |-> answer] >>,
                    LAMBDA e : e.v # JsUndefined))

ImportItems ==
    {ItemOf(n, a) : n \in {JsNum(1), JsStr(<<"2">>), JsNull, JsUndefined},
                    a \in {JsStr(<<"A">>), JsStr(<<"z">>), JsUndefined}}
    \cup {JsNull}

ImportArrays == {JsArr(items) : items \in SeqsUpTo(ImportItems, MaxEntries)}

\* {"1": "A", "5": "z"}
ExampleKeyFile ==
    JsObj(<< [k |-> <<"1">>, v |-> JsStr(<<"A">>)],
             [k |-> <<"5">>, v |-> JsStr(<<"z">>)] >>)

ImportPayloads ==
    ImportObjects \cup ImportArrays
    \cup {ExampleKeyFile, InvalidJson, JsNull, JsBool(TRUE), JsNum(1), JsStr(<<"A">>)}

InitImport ==
    \E d \in ImportDocs, data \in ImportPayloads :
        Loaded([f \in {"quiz.pdf"} |-> d], {data}, "quiz.pdf")

NextImport ==
    \/ \E data \in keyFiles : InFlight = 0 /\ onUploadKeyJson(data)
    \/ \E call \in importing : onUploadKeyJsonSettled(call)

SpecImport == InitImport /\ [][NextImport]_vars

(***************************************************************************)
(* SpecCanon: one document whose extracted text is drawn from the strings  *)
(* of at most MaxTokens tokens                                             *)
(***************************************************************************)

MaxTokens == 5

CanonTokens ==
    { <<"C", "â", "u", " ", "1">>, <<":">>, <<" ">>, <<"\n">>, <<"a">>,
      <<"b", ".">>, <<"x">> }

RECURSIVE Flatten(_)
Flatten(seqs) == IF seqs = << >> THEN << >> ELSE Head(seqs) \o Flatten(Tail(seqs))

InitCanon ==
    \E toks \in SeqsUpTo(CanonTokens, MaxTokens) :
        Mounted([f \in {"quiz.pdf"} |-> Flatten(toks)], {})

NextCanon ==
    \/ \E f \in DOMAIN pdfFiles : InFlight = 0 /\ onUploadPdf(f)
    \/ \E f \in DOMAIN pdfFiles : onUploadPdfSettled(f)

SpecCanon == InitCanon /\ [][NextCanon]_vars

(***************************************************************************)
(* SpecParse: one document whose extracted text is Example 1 of the        *)
(* specification, or is put together from at most MaxParts parts: question *)
(* headers with their prompts, option markers, a wrapped line, a preamble  *)
(***************************************************************************)

\* how many parts a document is put together from
MaxParts == 4

\* "Cau1: What is 2+2? a) 3 b) 4 c) 5"
ExampleOne ==
    <<"C", "a", "u", "1", ":", " ", "W", "h", "a", "t", " ", "i", "s", " ", "2", "+", "2", "?", " ", "a", ")", " ", "3", " ", "b", ")", " ", "4", " ", "c", ")", " ", "5">>

\* "Câu1: What is 2+2? a) 3 b) 4 c) 5", the marker written with its diacritic
ExampleOneMarked ==
    <<"C", "â", "u", "1", ":", " ", "W", "h", "a", "t", " ", "i", "s", " ", "2", "+", "2", "?", " ", "a", ")", " ", "3", " ", "b", ")", " ", "4", " ", "c", ")", " ", "5">>

\* "Câu 2: p", "Câu 1: q", " a) x", " b.y", "\nw", "t"
ParseParts ==
    { <<"C", "â", "u", " ", "2", ":", " ", "p">>,
      <<"C", "â", "u", " ", "1", ":", " ", "q">>,
      <<" ", "a", ")", " ", "x">>,
      <<" ", "b", ".", "y">>,
      <<"\n", "w">>,
      <<"t">> }

ParseDocs ==
    {Flatten(parts) : parts \in SeqsUpTo(ParseParts, MaxParts)}
    \cup {ExampleOne, ExampleOneMarked}

InitParse == \E d \in ParseDocs : Mounted([f \in {"quiz.pdf"} |-> d], {})

NextParse ==
    \/ \E f \in DOMAIN pdfFiles : InFlight = 0 /\ onUploadPdf(f)
    \/ \E f \in DOMAIN pdfFiles : onUploadPdfSettled(f)

SpecParse == InitParse /\ [][NextParse]_vars

(***************************************************************************)
(* Scoring and status (SpecQuiz)                                           *)
(***************************************************************************)

Keyed(i) == Get(answerKey, questions[i].id) # << >>

Submitted(i) == Trim(Get(answers, questions[i].id)) # << >>

\* C1: whenever a score is computed, correctCount + wrongCount <= totalKeyed
\* <= the number of questions, and correctCount + wrongCount = totalKeyed
\* exactly when every keyed question has a non-empty submission
ScoreExclusive ==
    score # NoScore =>
        /\ score.correctCount + score.wrongCount <= score.totalKeyed
        /\ score.totalKeyed <= Len(questions)
        /\ (score.correctCount + score.wrongCount = score.totalKeyed)
               <=> (\A i \in Indexes : Keyed(i) => Submitted(i))

\* a score of three questions, two keyed and both of them answered
ScoreExclusiveWitness ==
    /\ score # NoScore
    /\ Len(questions) = 3
    /\ score.totalKeyed = 2
    /\ score.correctCount + score.wrongCount = 2

\* the status the reconciliation rules give question i: presence is a
\* non-empty trimmed value, equality is of the case-folded trimmed values
StatusByRule(i) ==
    LET sel == Trim(ToUpper(Get(answers, questions[i].id)))
        key == Trim(ToUpper(Get(answerKey, questions[i].id)))
    IN  CASE ~submitted /\ sel # << >> -> "answered"
          [] ~submitted /\ sel = << >> -> "unanswered"
          [] submitted /\ key # << >> /\ sel # << >> /\ sel = key -> "correct"
          [] submitted /\ key # << >> /\ sel # << >> /\ sel # key -> "wrong"
          [] submitted /\ key # << >> /\ sel = << >> -> "unanswered_keyed"
          [] submitted /\ key = << >> /\ sel # << >> -> "answered_nokey"
          [] submitted /\ key = << >> /\ sel = << >> -> "nokey"

\* C2: statusOf is defined for every question and is the status the rules
\* give: after submission correct, wrong, unanswered_keyed, answered_nokey or
\* nokey by the presence and equality of submission and key, before
\* submission answered or unanswered by the presence of the submission
StatusTotal ==
    \A i \in Indexes : statusOf(questions[i]) = StatusByRule(i)

\* after submission: one question wrong, one unanswered with a key
StatusTotalWitness ==
    /\ submitted
    /\ \E i, j \in Indexes :
          /\ statusOf(questions[i]) = "wrong"
          /\ statusOf(questions[j]) = "unanswered_keyed"

CountOf(status) == Cardinality({i \in Indexes : statusOf(questions[i]) = status})

\* C3: whenever a score is computed, correctCount is the number of questions
\* whose status is correct, wrongCount the number whose status is wrong,
\* totalKeyed the number of questions with a non-empty key entry, and a
\* question without a key entry is neither correct nor wrong
ScoreCountsStatuses ==
    score # NoScore =>
        /\ score.correctCount = CountOf("correct")
        /\ score.wrongCount = CountOf("wrong")
        /\ score.totalKeyed = Cardinality({i \in Indexes : Keyed(i)})
        /\ \A i \in Indexes :
              ~Keyed(i) => statusOf(questions[i]) \in {"answered_nokey", "nokey"}

\* questions 1, 2, 3 with answers {1: A, 2: B} and key {1: A, 2: C, 3: D}
ScoreExample ==
    /\ Len(questions) = 3
    /\ answers = Put(Put(EmptyMap, <<"1">>, <<"A">>), <<"2">>, <<"B">>)
    /\ answerKey = Put(Put(Put(EmptyMap, <<"1">>, <<"A">>), <<"2">>, <<"C">>),
                       <<"3">>, <<"D">>)
    /\ score = [correctCount |-> 1, wrongCount |-> 1, totalKeyed |-> 3]
    /\ statusOf(questions[3]) = "unanswered_keyed"

(***************************************************************************)
(* Questions that carry the same number (SpecQuiz)                         *)
(***************************************************************************)

SameNumber(i, j) == i < j /\ questions[i].number = questions[j].number

ImportSettled == settled # NoCall /\ settled.result.ok

\* C8 as stated: after a key import, of two questions with the same number
\* the later one takes the imported entry and the earlier one stays unkeyed
DuplicateNumberReachesOne ==
    ImportSettled =>
        \A i, j \in Indexes :
            SameNumber(i, j) /\ questions[j].id \in DOMAIN settled.result.keyById
                => ~Keyed(i)

\* C8: two questions with the same number both stay in the list and share
\* one id, so that they have the same key entry and the same status, an
\* imported entry for their id keys both, and a score counts both
DuplicateNumberSharesKey ==
    /\ \A i, j \in Indexes :
          SameNumber(i, j) =>
              /\ questions[i].id = questions[j].id
              /\ Keyed(i) <=> Keyed(j)
              /\ statusOf(questions[i]) = statusOf(questions[j])
              /\ score # NoScore /\ Keyed(j) => score.totalKeyed >= 2
    /\ ImportSettled =>
          \A i \in Indexes : questions[i].id \in DOMAIN settled.result.keyById => Keyed(i)

\* a key import has just keyed two questions that carry the same number
DuplicateNumberWitness ==
    /\ ImportSettled
    /\ Len(questions) = 2
    /\ SameNumber(1, 2)
    /\ Keyed(1)
    /\ Keyed(2)

(***************************************************************************)
(* Export and import of the answer key (SpecQuiz)                          *)
(***************************************************************************)

\* the number of question i as a numeral
NumeralOf(i) == NatToString(questions[i].number)

\* C9: the exported object holds exactly the questions with a set key, under
\* their numbers, and importing it against the same questions gives the
\* answer key back
ExportImportLossless ==
    download # NoDownload =>
        /\ {e.k : e \in {download.items[n] : n \in 1..Len(download.items)}}
              = {NumeralOf(i) : i \in {x \in Indexes : Keyed(x)}}
        /\ \A n \in 1..Len(download.items) : \A i \in Indexes :
              download.items[n].k = NumeralOf(i)
                  => download.items[n].v = JsStr(Get(answerKey, questions[i].id))
        /\ importAnswerKeyFromJsonFile(download, questions) = Returned(answerKey)

(***************************************************************************)
(* Import of an answer-key file (SpecImport)                               *)
(***************************************************************************)

\* C6: an import fails exactly when the file is not JSON or its top-level
\* value is neither an object nor an array (a string, a number, a boolean,
\* null), whatever the entries of an object or an array are
ImportFailsOnShape ==
    settled # NoCall =>
        /\ ~settled.result.ok <=>
              \/ settled.data = InvalidJson
              \/ settled.data.kind \in {"string", "number", "bool", "null"}
        /\ settled.data.kind \in {"object", "array"} => settled.result.ok
        /\ ~settled.result.ok => alert.kind \in {"parse", "format"}

\* the import of a bare string has failed
ImportFailsWitness ==
    /\ settled # NoCall
    /\ settled.data = JsStr(<<"A">>)
    /\ ~settled.result.ok
    /\ alert.kind = "format"

\* the (numeral, choice) pairs of a key file
EntriesOfPayload(data) ==
    IF data.kind = "object"
    THEN {[numeral |-> JsStr(data.items[n].k), choice |-> data.items[n].v] :
             n \in 1..Len(data.items)}
    ELSE {[numeral |-> Field(data.items[n], <<"n", "u", "m", "b", "e", "r">>),
           choice |-> Field(data.items[n], <<"a", "n", "s", "w", "e", "r">>)] :
             n \in 1..Len(data.items)}

\* the numeral parses as an integer
IsNumeral(x) ==
    \/ x.kind = "number"
    \/ x.kind = "string" /\ Trim(x.str) # << >> /\ AllDigits(Trim(x.str))

NumeralValue(x) == IF x.kind = "number" THEN x.num ELSE DigitsToNat(Trim(x.str))

\* the entry is for question q: its numeral is q's number and its choice is
\* one letter A-E
EntryFor(e, q) ==
    /\ IsNumeral(e.numeral)
    /\ NumeralValue(e.numeral) = q.number
    /\ isValidChoice(e.choice)

\* C7: the map a successful import returns has an entry for exactly the ids
\* of the questions whose number some entry of the file names with a letter
\* A-E, and each value is the uppercased, trimmed letter of such an entry
ImportedMapByNumber ==
    ImportSettled =>
        LET keyById == settled.result.keyById
            qs == settled.questions
            es == EntriesOfPayload(settled.data)
        IN  /\ DOMAIN keyById =
                  {qs[i].id : i \in {x \in 1..Len(qs) : \E e \in es : EntryFor(e, qs[x])}}
            /\ \A id \in DOMAIN keyById :
                  \E e \in es, i \in 1..Len(qs) :
                      /\ EntryFor(e, qs[i])
                      /\ qs[i].id = id
                      /\ keyById[id] = NormalChoice(e.choice)

(***************************************************************************)
(* Uploads and the autosaved work (Spec)                                   *)
(***************************************************************************)

\* the step is onUploadPdf(f) up to its await
UploadStarted(f) == extracting'[f] = extracting[f] + 1

\* the step is the rest of onUploadPdf(f)
UploadSettled(f) == extracting[f] = extracting'[f] + 1 /\ fileName' # NoFile

NoWork == answers' = EmptyMap /\ answerKey' = EmptyMap /\ submitted' = FALSE

SavedWork(f) ==
    /\ answers' = localStorage[f].answers
    /\ answerKey' = localStorage[f].answerKey
    /\ submitted' = localStorage[f].submitted

\* C4 as stated: every upload leaves no answer and no key entry in effect
\* and submitted false, up to and including its settling
UploadDiscards ==
    [][\A f \in DOMAIN pdfFiles :
          /\ UploadStarted(f) => questions' = << >> /\ NoWork
          /\ UploadSettled(f) => UNCHANGED <<answers, answerKey, submitted>>]_vars

\* C4: every upload replaces the question list; it leaves no answer, no key
\* entry and submitted false, unless the file's name is not the current one
\* and has a saved item, and then it leaves the saved answers, key and
\* submitted flag in effect; its settling changes none of the three and sets
\* the questions parsed from the file
UploadDiscardsOrRestores ==
    [][\A f \in DOMAIN pdfFiles :
          /\ UploadStarted(f) =>
                /\ questions' = << >>
                /\ IF f # fileName /\ localStorage[f] # NoItem
                   THEN SavedWork(f)
                   ELSE NoWork
          /\ UploadSettled(f) =>
                /\ UNCHANGED <<answers, answerKey, submitted>>
                /\ questions' = parseQuestionsFromText(canonicalizeQuizText(pdfFiles[f]))]_vars

\* an upload in progress has put a submitted quiz and its answers back
UploadRestoredWitness ==
    /\ loading
    /\ questions = << >>
    /\ submitted
    /\ answers # EmptyMap

\* C5: every upload of a file whose name has a saved item leaves the saved
\* answers, key and submitted flag in effect, up to and including its
\* settling
UploadRestoresSaved ==
    [][\A f \in DOMAIN pdfFiles :
          /\ UploadStarted(f) /\ localStorage[f] # NoItem => SavedWork(f)
          /\ UploadSettled(f) => UNCHANGED <<answers, answerKey, submitted>>]_vars

(***************************************************************************)
(* The canonical text (SpecCanon)                                          *)
(***************************************************************************)

\* C10: canonicalizeQuizText is idempotent: the text onUploadPdf stores,
\* canonicalizeQuizText of the extracted text, is left as it is by the
\* canonicalizeQuizText that parseQuestionsFromText applies to it
CanonicalizeIdempotent ==
    ~loading => canonicalizeQuizText(rawText) = rawText

(***************************************************************************)
(* The parsed questions (SpecParse)                                        *)
(***************************************************************************)

\* the document of the file has been extracted and parsed
Parsed == fileName # NoFile /\ ~loading /\ InFlight = 0

\* "Câu 1: What is 2+2?\nA. 3\nB. 4\nC. 5"
ExampleOneCanonical ==
    <<"C", "â", "u", " ", "1", ":", " ", "W", "h", "a", "t", " ", "i", "s", " ", "2", "+", "2", "?", "\n", "A", ".", " ", "3", "\n", "B", ".", " ", "4", "\n", "C", ".", " ", "5">>

OptionKeySeq(q) == [i \in 1..Len(q.options) |-> q.options[i].key]

\* C11: the text "Cau1: What is 2+2? a) 3 b) 4 c) 5" is canonicalized to
\* "Câu 1: What is 2+2?" and the lines "A. 3", "B. 4", "C. 5", and is parsed to
\* exactly one question, of number 1, with the options A, B, C in that order
MarkerWithoutDiacriticRepaired ==
    (Parsed /\ pdfFiles["quiz.pdf"] = ExampleOne) =>
        /\ rawText = ExampleOneCanonical
        /\ Len(questions) = 1
        /\ questions[1].number = 1
        /\ OptionKeySeq(questions[1]) = <<"A", "B", "C">>

\* C12: in every parsed question the option keys are letters of A..D and are
\* pairwise distinct
OptionKeysDistinct ==
    \A q \in Indexes :
        \A i, j \in 1..Len(questions[q].options) :
            /\ questions[q].options[i].key \in Letters
            /\ i # j => questions[q].options[i].key # questions[q].options[j].key

(***************************************************************************)
(* Writes to the answers and to the answer key (SpecQuiz)                  *)
(***************************************************************************)

\* C13: every setChoice(qid, choice) leaves the answers as they were with
\* qid set to choice, and every setKeyChoice(qid, choice) leaves the answer
\* key as it was with qid set to choice (removed for the empty choice); each
\* leaves the other map alone.  So in any sequence of the two, each id holds
\* what was written to it last, and a write to one id changes no other id.
LastWriteWins ==
    [][\A qid \in QuestionIds :
          /\ \A choice \in Letters :
                setChoice(qid, choice) =>
                    /\ answers' = Put(answers, qid, << choice >>)
                    /\ answerKey' = answerKey
          /\ \A choice \in Letters \cup {""} :
                setKeyChoice(qid, choice) =>
                    /\ answerKey' = IF choice = "" THEN Delete(answerKey, qid)
                                    ELSE Put(answerKey, qid, << choice >>)
                    /\ answers' = answers]_vars

\* both questions of the document with two options are answered and keyed,
\* question 1 answered with its second option
LastWriteWinsWitness ==
    /\ pdfFiles["quiz.pdf"] = DocTwo
    /\ Get(answers, <<"1">>) = << "B" >>
    /\ Get(answers, <<"2">>) = << "A" >>
    /\ Get(answerKey, <<"1">>) = << "A" >>
    /\ Get(answerKey, <<"2">>) = << "A" >>

(***************************************************************************)
(* Blocks, prompts and options of the parsed questions (SpecParse)         *)
(***************************************************************************)

\* the blocks the parser splits its canonical text into, each trimmed
CanonicalBlocks == TrimAll(SplitBlocks(canonicalizeQuizText(rawText)))

\* the blocks whose header matches, in the order of the text
HeaderBlocks == SelectSeq(CanonicalBlocks, HeadMatches)

\* the body lines of a block
LinesOf(block) == BodyLines(Trim(HeadBody(block)))

OptionLines(block) == {i \in 1..Len(LinesOf(block)) : OptMatches(LinesOf(block)[i])}

\* C14: the parsed questions are the blocks whose header matches, one for
\* one and in the order of the text, each with the number of its header and
\* the id String(number); a block without an option line gives a question
\* without options; the other blocks give nothing
OneQuestionPerHeaderBlock ==
    Parsed =>
        /\ Len(questions) = Len(HeaderBlocks)
        /\ \A i \in 1..Len(HeaderBlocks) :
              /\ questions[i].number = DigitsToNat(HeadNumber(HeaderBlocks[i]))
              /\ questions[i].id = NatToString(questions[i].number)
              /\ OptionLines(HeaderBlocks[i]) = {} => questions[i].options = << >>

\* a text with a preamble, then question 2 without options, then question 1
OneQuestionPerHeaderBlockWitness ==
    /\ Parsed
    /\ Len(CanonicalBlocks) > Len(HeaderBlocks)
    /\ Len(questions) = 2
    /\ questions[1].number = 2 /\ questions[1].options = << >>
    /\ questions[2].number = 1 /\ questions[2].options # << >>

\* the index of the k-th option line of a block
OptionLine(block, k) ==
    CHOOSE i \in OptionLines(block) :
        Cardinality({j \in OptionLines(block) : j <= i}) = k

\* the index of the last line before the next option line, or of the last line
OptionEnd(block, k) ==
    IF k = Cardinality(OptionLines(block)) THEN Len(LinesOf(block))
    ELSE OptionLine(block, k + 1) - 1

\* the k-th option line without its marker, then the lines up to the next
\* option line, joined with blanks
OptionText(block, k) ==
    LET lines == LinesOf(block)
        from == OptionLine(block, k)
    IN  JoinWith(<<" ">>, << Trim(Sub(lines[from], 3, Len(lines[from]) + 1)) >>
                             \o SubSeq(lines, from + 1, OptionEnd(block, k)))

\* the lines before the first option line, joined with blanks
PromptText(block) ==
    LET lines == LinesOf(block)
        first == IF OptionLines(block) = {} THEN Len(lines) + 1
                 ELSE OptionLine(block, 1)
    IN  JoinWith(<<" ">>, SubSeq(lines, 1, first - 1))

\* C15: the options of a question are the option lines of its block, in the
\* order of the lines, each with the letter of its line; the lines before the
\* first option line make the prompt, and a line after an option line that
\* is no option line is joined with a blank to the text of the option opened
\* last, never to the prompt or to an earlier option
LinesWalkedInOrder ==
    Parsed =>
        \A i \in 1..Len(HeaderBlocks) :
            LET block == HeaderBlocks[i]
            IN  /\ Len(questions[i].options) = Cardinality(OptionLines(block))
                /\ \A k \in 1..Len(questions[i].options) :
                      /\ questions[i].options[k].key =
                            UpperChar(LinesOf(block)[OptionLine(block, k)][1])
                      /\ questions[i].options[k].text = OptionText(block, k)
                /\ questions[i].prompt =
                      IF PromptText(block) = << >> THEN PromptPlaceholder
                      ELSE PromptText(block)

\* "Câu 1: q a) x\nw b.y": the line w follows the option line of A
LinesWalkedInOrderWitness ==
    /\ Parsed
    /\ Len(questions) = 1
    /\ questions[1].prompt = <<"q">>
    /\ questions[1].options = << [key |-> "A", text |-> <<"x", " ", "w">>],
                                  [key |-> "B", text |-> <<"y">>] >>

(***************************************************************************)
(* The outcome of a key import (SpecQuiz)                                  *)
(***************************************************************************)

\* C16: when an import call settles with a mapping, the answer key is that
\* mapping and nothing else, submitted is false and the user is told; when
\* it settles with an error, the user is shown the error and the answer key,
\* the answers, submitted and the questions are what they were
ImportAllOrNothing ==
    [][settled' # NoCall =>
          IF settled'.result.ok
          THEN /\ answerKey' = settled'.result.keyById
               /\ submitted' = FALSE
               /\ alert'.kind = "import-ok"
               /\ UNCHANGED <<answers, questions>>
          ELSE /\ alert'.kind = settled'.result.error
               /\ alert' # NoAlert
               /\ UNCHANGED <<answerKey, answers, submitted, questions>>]_vars

\* an import has just failed on a submitted quiz with answers and a key
ImportAllOrNothingWitness ==
    /\ settled # NoCall
    /\ ~settled.result.ok
    /\ alert.kind = settled.result.error
    /\ submitted
    /\ answers # EmptyMap
    /\ answerKey # EmptyMap

(***************************************************************************)
(* Handlers that overlap (Spec)                                            *)
(***************************************************************************)

\* no onUploadPdf call is awaiting its text
ExtractionsSettled == \A f \in DOMAIN extracting : extracting[f] = 0

\* C17: once every upload has settled, the questions are those of the file
\* that fileName names
QuestionsOfNamedFile ==
    (ExtractionsSettled /\ fileName # NoFile) =>
        questions = parseQuestionsFromText(canonicalizeQuizText(pdfFiles[fileName]))

\* C18: once every handler has settled, the answer key that an import has
\* just installed is the one the file gives for the questions in effect
KeyOfCurrentQuestions ==
    (InFlight = 0 /\ ImportSettled) =>
        answerKey = importAnswerKeyFromJsonFile(settled.data, questions).keyById

====
